---- MODULE Spec2Model ----
(***************************************************************************)
(* A model of render_jsonl.py: the per-line render loop of                 *)
(* render_jsonl_to_html, the block renderers it dispatches to, and the     *)
(* batch driver of main.                                                   *)
(*                                                                         *)
(* Python values are tagged records [t |-> tag, v |-> value].  A Python    *)
(* str is a sequence of tokens; a token is a TLA+ string that stands for   *)
(* the characters Chars gives it (an ASCII token stands for its own text,  *)
(* the upper-case names EACUTE, EURO, GRIN, SURR for one non-ASCII code    *)
(* point each).  The token vocabulary is uniquely decodable, so equality   *)
(* of token sequences is equality of the strings, and no token other than  *)
(* the literal itself contains "timestamp", "git", "instructions" or a     *)
(* patch marker.                                                           *)
(***************************************************************************)
EXTENDS Integers, Sequences, FiniteSets, TLC

\* ------------------------------------------------------------ Python str

\* The code points of a token.
Chars(tok) ==
  CASE tok = " " -> <<32>>
    [] tok = "x" -> <<120>>
    [] tok = "&" -> <<38>>
    [] tok = "<" -> <<60>>
    [] tok = ">" -> <<62>>
    [] tok = "{" -> <<123>>
    [] tok = "}" -> <<125>>
    [] tok = "[" -> <<91>>
    [] tok = "]" -> <<93>>
    [] tok = "," -> <<44>>
    [] tok = ":" -> <<58>>
    [] tok = "5" -> <<53>>
    [] tok = "0" -> <<48>>
    [] tok = "+" -> <<43>>
    [] tok = "-" -> <<45>>
    [] tok = "@" -> <<64>>
    [] tok = "Plan updated" -> <<80, 108, 97, 110, 32, 117, 112, 100, 97, 116, 101, 100>>
    [] tok = "*** Begin Patch" -> <<42, 42, 42, 32, 66, 101, 103, 105, 110, 32, 80, 97, 116, 99, 104>>
    [] tok = "*** End Patch" -> <<42, 42, 42, 32, 69, 110, 100, 32, 80, 97, 116, 99, 104>>
    [] tok = "apply_patch" -> <<97, 112, 112, 108, 121, 95, 112, 97, 116, 99, 104>>
    [] tok = "ls" -> <<108, 115>>
    [] tok = "None" -> <<78, 111, 110, 101>>
    [] tok = "null" -> <<110, 117, 108, 108>>
    [] tok = "true" -> <<116, 114, 117, 101>>
    [] tok = "false" -> <<102, 97, 108, 115, 101>>
    [] tok = "hello" -> <<104, 101, 108, 108, 111>>
    [] tok = "foo" -> <<102, 111, 111>>
    [] tok = "\n" -> <<10>>
    [] tok = "\"" -> <<34>>
    [] tok = "\\n" -> <<92, 110>>
    [] tok = "\\\"" -> <<92, 34>>
    [] tok = "EACUTE" -> <<233>>
    [] tok = "EURO" -> <<8364>>
    [] tok = "GRIN" -> <<128512>>
    [] tok = "SURR" -> <<55296>>
    [] tok = "\\u00e9" -> <<92, 117, 48, 48, 101, 57>>
    [] tok = "\\u20ac" -> <<92, 117, 50, 48, 97, 99>>
    [] tok = "\\ud83d\\ude00" -> <<92, 117, 100, 56, 51, 100, 92, 117, 100, 101, 48, 48>>
    [] tok = "\\ud800" -> <<92, 117, 100, 56, 48, 48>>
    [] tok = "output" -> <<111, 117, 116, 112, 117, 116>>
    [] tok = "metadata" -> <<109, 101, 116, 97, 100, 97, 116, 97>>
    [] tok = "command" -> <<99, 111, 109, 109, 97, 110, 100>>

RECURSIVE CodePoints(_)
CodePoints(s) == IF s = <<>> THEN <<>> ELSE Chars(Head(s)) \o CodePoints(Tail(s))

\* len(s): the number of code points.
PyLen(s) == Len(CodePoints(s))

\* str.count("\n")
CountNewlines(s) == Cardinality({i \in 1..Len(s) : s[i] = "\n"})

IsSpace(tok) == tok \in {" ", "\n"}

RECURSIVE LStrip(_)
LStrip(s) == IF s # <<>> /\ IsSpace(Head(s)) THEN LStrip(Tail(s)) ELSE s

RECURSIVE RStrip(_)
RStrip(s) ==
  IF s # <<>> /\ IsSpace(s[Len(s)]) THEN RStrip(SubSeq(s, 1, Len(s) - 1)) ELSE s

\* str.strip()
Strip(s) == RStrip(LStrip(s))

\* html.escape(c, quote=False) of one character.
EscTok(tok) ==
  CASE tok = "&" -> "&amp;"
    [] tok = "<" -> "&lt;"
    [] tok = ">" -> "&gt;"
    [] OTHER -> tok

\* A faulty variant of esc: the ampersand is left as it is.
escNoAmp(text) ==
  [i \in 1..Len(text) |-> IF text[i] = "&" THEN "&" ELSE EscTok(text[i])]

\* esc(text): HTML-escape a str.
esc(text) == [i \in 1..Len(text) |-> EscTok(text[i])]

\* ---------------------------------------------------------- JSON values

\* The decoding of a str that is not JSON text.
NotJson == [t |-> "bad"]

JNull == [t |-> "null"]
JBool(b) == [t |-> "bool", v |-> b]
JNum(n) == [t |-> "num", v |-> n]
\* A str whose text json.loads rejects.
JStr(s) == [t |-> "str", v |-> s, enc |-> NotJson]
JList(s) == [t |-> "list", v |-> s]
JDict(r) == [t |-> "dict", v |-> r]
EmptyDict == JDict([k \in {} |-> JNull])

IsStr(x) == x.t = "str"
IsList(x) == x.t = "list"
IsDict(x) == x.t = "dict"

\* bool(x)
Truthy(x) ==
  CASE x.t = "null" -> FALSE
    [] x.t = "bool" -> x.v
    [] x.t = "num" -> x.v # 0
    [] x.t = "str" -> x.v # <<>>
    [] x.t = "list" -> x.v # <<>>
    [] x.t = "dict" -> DOMAIN x.v # {}

\* d.get(k) and d.get(k, default) of a dict.
Get(d, k) == IF k \in DOMAIN d.v THEN d.v[k] ELSE JNull
GetOr(d, k, default) == IF k \in DOMAIN d.v THEN d.v[k] ELSE default

\* x or default
OrElse(x, default) == IF Truthy(x) THEN x ELSE default

\* The order in which a dict's keys were written.
KeyOrder ==
  << "timestamp", "payload", "id", "git", "instructions", "record_type", "type",
     "role", "content", "summary", "text", "name", "arguments", "command",
     "output", "metadata", "explanation", "plan", "step", "status",
     "repository_url", "branch", "commit_hash" >>

DictKeys(d) == SelectSeq(KeyOrder, LAMBDA k : k \in DOMAIN d.v)

Spaces(n) == [i \in 1..n |-> " "]

\* The decimal text of a number (the numbers of the inputs).
NumText(n) == CASE n = 0 -> <<"0">> [] n = 5 -> <<"5">>

\* json.dumps of one character of a str (ensure_ascii).
DumpsTok(tok) ==
  CASE tok = "\n" -> "\\n"
    [] tok = "\"" -> "\\\""
    [] tok = "EACUTE" -> "\\u00e9"
    [] tok = "EURO" -> "\\u20ac"
    [] tok = "GRIN" -> "\\ud83d\\ude00"
    [] tok = "SURR" -> "\\ud800"
    [] tok = "\\n" -> "\\\\n"
    [] tok = "\\u00e9" -> "\\\\u00e9"
    [] tok = "\\u20ac" -> "\\\\u20ac"
    [] tok = "\\ud83d\\ude00" -> "\\\\ud83d\\\\ude00"
    [] tok = "\\ud800" -> "\\\\ud800"
    [] tok = "\\\"" -> "\\\\\\\""
    [] OTHER -> tok

DumpsStr(s) == <<"\"">> \o [i \in 1..Len(s) |-> DumpsTok(s[i])] \o <<"\"">>

\* The line break json.dumps writes before an item at nesting level lvl.
Break(pretty, lvl) == IF pretty THEN <<"\n">> \o Spaces(2 * lvl) ELSE <<>>
ItemSep(pretty, lvl) == IF pretty THEN <<",">> \o Break(pretty, lvl) ELSE <<",", " ">>

RECURSIVE Dumps(_, _, _), DumpsItems(_, _, _), DumpsMembers(_, _, _, _)
\* json.dumps(x, indent=2) when pretty, json.dumps(x) otherwise.
Dumps(x, pretty, lvl) ==
  CASE x.t = "null" -> <<"null">>
    [] x.t = "bool" -> IF x.v THEN <<"true">> ELSE <<"false">>
    [] x.t = "num" -> NumText(x.v)
    [] x.t = "str" -> DumpsStr(x.v)
    [] x.t = "list" ->
         IF x.v = <<>> THEN <<"[", "]">>
         ELSE <<"[">> \o Break(pretty, lvl + 1) \o DumpsItems(x.v, pretty, lvl + 1)
              \o Break(pretty, lvl) \o <<"]">>
    [] x.t = "dict" ->
         IF DOMAIN x.v = {} THEN <<"{", "}">>
         ELSE <<"{">> \o Break(pretty, lvl + 1)
              \o DumpsMembers(x, DictKeys(x), pretty, lvl + 1)
              \o Break(pretty, lvl) \o <<"}">>
DumpsItems(items, pretty, lvl) ==
  IF Len(items) = 1 THEN Dumps(items[1], pretty, lvl)
  ELSE Dumps(items[1], pretty, lvl) \o ItemSep(pretty, lvl)
       \o DumpsItems(Tail(items), pretty, lvl)
DumpsMembers(d, keys, pretty, lvl) ==
  LET member == DumpsStr(<<keys[1]>>) \o <<":", " ">> \o Dumps(d.v[keys[1]], pretty, lvl)
  IN IF Len(keys) = 1 THEN member
     ELSE member \o ItemSep(pretty, lvl) \o DumpsMembers(d, Tail(keys), pretty, lvl)

\* A str holding the JSON text of val: json.loads gives val back.
JEnc(val) == [t |-> "str", v |-> Dumps(val, FALSE, 0), enc |-> val]

\* str(x) of a scalar.
PyStr(x) ==
  CASE x.t = "str" -> x.v
    [] x.t = "null" -> <<"None">>
    [] x.t = "num" -> NumText(x.v)

\* ------------------------------------------------- base64 of UTF-8 bytes

\* A lone surrogate: str.encode("utf-8") raises UnicodeEncodeError on it.
IsSurrogate(cp) == cp >= 55296 /\ cp <= 57343

\* The UTF-8 bytes of one code point (not a surrogate).
Utf8Char(cp) ==
  CASE cp < 128 -> <<cp>>
    [] cp >= 128 /\ cp < 2048 -> <<192 + (cp \div 64), 128 + (cp % 64)>>
    [] cp >= 2048 /\ cp < 65536 ->
         <<224 + (cp \div 4096), 128 + ((cp \div 64) % 64), 128 + (cp % 64)>>
    [] cp >= 65536 ->
         <<240 + (cp \div 262144), 128 + ((cp \div 4096) % 64),
           128 + ((cp \div 64) % 64), 128 + (cp % 64)>>

RECURSIVE Utf8Encode(_)
\* s.encode("utf-8") of the code points s.
Utf8Encode(s) == IF s = <<>> THEN <<>> ELSE Utf8Char(Head(s)) \o Utf8Encode(Tail(s))

B64Alphabet ==
  << "A", "B", "C", "D", "E", "F", "G", "H", "I", "J", "K", "L", "M", "N", "O", "P",
     "Q", "R", "S", "T", "U", "V", "W", "X", "Y", "Z", "a", "b", "c", "d", "e", "f",
     "g", "h", "i", "j", "k", "l", "m", "n", "o", "p", "q", "r", "s", "t", "u", "v",
     "w", "x", "y", "z", "0", "1", "2", "3", "4", "5", "6", "7", "8", "9", "+", "/" >>

B64Char(n) == B64Alphabet[n + 1]

RECURSIVE b64encodeNoPad(_)
\* A faulty variant of b64encode: the last, partial group of bytes is dropped.
b64encodeNoPad(bytes) ==
  IF Len(bytes) < 3 THEN <<>>
  ELSE << B64Char(bytes[1] \div 4),
          B64Char((bytes[1] % 4) * 16 + (bytes[2] \div 16)),
          B64Char((bytes[2] % 16) * 4 + (bytes[3] \div 64)),
          B64Char(bytes[3] % 64) >>
       \o b64encodeNoPad(SubSeq(bytes, 4, Len(bytes)))

RECURSIVE b64encode(_)
\* base64.b64encode(bytes).decode("ascii")
b64encode(bytes) ==
  CASE Len(bytes) = 0 -> <<>>
    [] Len(bytes) = 1 ->
         << B64Char(bytes[1] \div 4), B64Char((bytes[1] % 4) * 16), "=", "=" >>
    [] Len(bytes) = 2 ->
         << B64Char(bytes[1] \div 4),
            B64Char((bytes[1] % 4) * 16 + (bytes[2] \div 16)),
            B64Char((bytes[2] % 16) * 4), "=" >>
    [] OTHER ->
         << B64Char(bytes[1] \div 4),
            B64Char((bytes[1] % 4) * 16 + (bytes[2] \div 16)),
            B64Char((bytes[2] % 16) * 4 + (bytes[3] \div 64)),
            B64Char(bytes[3] % 64) >>
         \o b64encode(SubSeq(bytes, 4, Len(bytes)))

\* ------------------------------------------------------- block renderers

\* What a renderer returns: a fragment, the empty string, or an exception
\* that leaves it.
EmptyFragment == [kind |-> "empty"]
Raise == [kind |-> "raise"]

\* parse_json_string_maybe(s): (obj, ok)
parse_json_string_maybe(s) ==
  CASE s.t \in {"dict", "list"} -> [obj |-> s, ok |-> TRUE]
    [] s.t # "str" /\ s.t \notin {"dict", "list"} -> [obj |-> JNull, ok |-> FALSE]
    [] s.t = "str" ->
         IF s.enc = NotJson THEN [obj |-> s, ok |-> FALSE]
         ELSE [obj |-> s.enc, ok |-> TRUE]

\* "for part in x" with "part.get(...)" in the body needs a list of dicts:
\* a str yields its characters, a dict its keys, a number is not iterable.
IterableOfDicts(x) == IsList(x) /\ \A i \in 1..Len(x.v) : IsDict(x.v[i])

RECURSIVE JoinParagraphs(_)
\* "\n\n".join(texts)
JoinParagraphs(texts) ==
  IF texts = <<>> THEN <<>>
  ELSE IF Len(texts) = 1 THEN texts[1]
  ELSE texts[1] \o <<"\n", "\n">> \o JoinParagraphs(Tail(texts))

\* esc(text).replace("\n", "<br/>"): the rendering without markdown_it.
TextHtml(text) ==
  [i \in 1..Len(text) |-> IF text[i] = "\n" THEN "<br/>" ELSE EscTok(text[i])]

render_reasoning(entry, ts_inline) ==
  LET summary_parts == OrElse(Get(entry, "summary"), JList(<<>>)) IN
  IF ~IterableOfDicts(summary_parts) THEN Raise
  ELSE
    LET kept == SelectSeq(summary_parts.v,
                          LAMBDA p : Get(p, "type") = JStr(<<"summary_text">>))
        raw_texts == [i \in 1..Len(kept) |-> GetOr(kept[i], "text", JStr(<<>>))]
    IN IF raw_texts = <<>> THEN EmptyFragment
       ELSE IF \E i \in 1..Len(raw_texts) : ~IsStr(raw_texts[i]) THEN Raise
       ELSE [kind |-> "reasoning", ts |-> ts_inline, collapsed |-> FALSE,
             aria_expanded |-> TRUE, toggle_label |-> "Collapse",
             body |-> TextHtml(JoinParagraphs([i \in 1..Len(raw_texts) |-> raw_texts[i].v]))]

render_message(entry, ts_inline) ==
  LET role == GetOr(entry, "role", JStr(<<"assistant">>))
      parts == OrElse(Get(entry, "content"), JList(<<>>))
  IN
  IF ~IterableOfDicts(parts) THEN Raise
  ELSE
    LET kept == SelectSeq(parts.v, LAMBDA p : IsStr(Get(p, "text")))
        text == JoinParagraphs([i \in 1..Len(kept) |-> Get(kept[i], "text").v])
    IN [kind |-> IF role = JStr(<<"user">>) THEN "user" ELSE "assistant",
        ts |-> ts_inline, body |-> TextHtml(text)]

\* str.lower() of one character run (the status values of the inputs).
LowerTok(tok) ==
  CASE tok \in {"Completed", "COMPLETED"} -> "completed"
    [] tok = "In_Progress" -> "in_progress"
    [] OTHER -> tok

\* sym(status) of render_plan_update; status is a str.
sym(status) ==
  LET s == [i \in 1..Len(status) |-> LowerTok(status[i])] IN
  CASE s = <<"completed">> -> "check"
    [] s = <<"in_progress">> -> "hourglass"
    [] OTHER -> "box"

\* One plan entry's step and status as the loop of render_plan_update reads them.
PlanStep(it) == GetOr(OrElse(it, EmptyDict), "step", JStr(<<>>))
PlanStatus(it) == GetOr(OrElse(it, EmptyDict), "status", JStr(<<"pending">>))

render_plan_update(args_obj, ts_inline) ==
  LET explanation == OrElse(Get(args_obj, "explanation"), JStr(<<>>))
      plan_items == OrElse(Get(args_obj, "plan"), JList(<<>>))
  IN
  IF ~IsList(plan_items) THEN Raise
  ELSE IF \E i \in 1..Len(plan_items.v) :
            \/ Truthy(plan_items.v[i]) /\ ~IsDict(plan_items.v[i])
            \/ ~IsStr(PlanStep(plan_items.v[i]))
            \/ Truthy(PlanStatus(plan_items.v[i])) /\ ~IsStr(PlanStatus(plan_items.v[i]))
       THEN Raise
  ELSE IF ~IsStr(explanation) THEN Raise
  ELSE [kind |-> "plan", ts |-> ts_inline,
        expl |-> TextHtml(explanation.v),
        items |-> [i \in 1..Len(plan_items.v) |->
                     [glyph |-> sym(OrElse(PlanStatus(plan_items.v[i]), JStr(<<>>)).v),
                      step |-> esc(PlanStep(plan_items.v[i]).v)]]]

NoPatch == [found |-> FALSE, text |-> <<>>]

\* re.search(r"\*\*\* Begin Patch(.*)\*\*\* End Patch", s, DOTALL): the span from
\* the first begin marker to the last end marker after it.
PatchSpan(s) ==
  LET begins == {i \in 1..Len(s) : s[i] = "*** Begin Patch"}
      b == CHOOSE i \in begins : \A j \in begins : i <= j
      ends == {i \in 1..Len(s) : s[i] = "*** End Patch" /\ i > b}
      e == CHOOSE i \in ends : \A j \in ends : i >= j
  IN IF begins = {} \/ ends = {} THEN NoPatch
     ELSE [found |-> TRUE, text |-> SubSeq(s, b, e)]

RECURSIVE FirstPatchSpan(_)
FirstPatchSpan(parts) ==
  IF parts = <<>> THEN NoPatch
  ELSE IF PatchSpan(PyStr(Head(parts))).found THEN PatchSpan(PyStr(Head(parts)))
  ELSE FirstPatchSpan(Tail(parts))

extract_patch_from_command(cmd_list) ==
  IF ~IsList(cmd_list) THEN NoPatch
  ELSE IF Len(cmd_list.v) >= 2 /\ PyStr(cmd_list.v[1]) = <<"apply_patch">>
       THEN [found |-> TRUE, text |-> PyStr(cmd_list.v[2])]
  ELSE FirstPatchSpan(cmd_list.v)

RECURSIVE JoinSpace(_)
\* " ".join(str(c) for c in cmd)
JoinSpace(cmd) ==
  IF cmd = <<>> THEN <<>>
  ELSE IF Len(cmd) = 1 THEN PyStr(cmd[1])
  ELSE PyStr(cmd[1]) \o <<" ">> \o JoinSpace(Tail(cmd))

\* The Apply Patch block of render_function_call.
ApplyPatchBlock(patch_text, ts_inline) ==
  IF \E i \in 1..Len(CodePoints(patch_text)) : IsSurrogate(CodePoints(patch_text)[i])
  THEN Raise
  ELSE [kind |-> "apply-patch", ts |-> ts_inline, collapsed |-> FALSE,
        aria_expanded |-> TRUE, toggle_label |-> "Collapse", copy_label |-> "Copy",
        raw_b64 |-> esc(b64encode(Utf8Encode(CodePoints(patch_text)))),
        body |-> esc(patch_text)]

render_function_call(entry, ts_inline) ==
  LET name == GetOr(entry, "name", JStr(<<"function">>))
      args_raw == Get(entry, "arguments")
      parsed == parse_json_string_maybe(args_raw)
      args_obj == parsed.obj
      ok == parsed.ok
      cmd == Get(args_obj, "command")
      patch == extract_patch_from_command(cmd)
  IN
  IF name = JStr(<<"update_plan">>) /\ ok /\ IsDict(args_obj)
  THEN render_plan_update(args_obj, ts_inline)
  ELSE IF ok /\ IsDict(args_obj) /\ patch.found
  THEN ApplyPatchBlock(patch.text, ts_inline)
  ELSE IF ~IsStr(name) THEN Raise
  ELSE [kind |-> "func-call", ts |-> ts_inline, label |-> esc(name.v),
        body |-> IF ok /\ IsDict(args_obj)
                 THEN IF IsList(cmd) THEN <<"$ ">> \o esc(JoinSpace(cmd.v))
                      ELSE esc(Dumps(args_obj, TRUE, 0))
                 ELSE esc(PyStr(args_raw))]

\* The fallbacks of the two collapse thresholds (COLLAPSE_OUTPUT_CHAR_THRESHOLD,
\* COLLAPSE_OUTPUT_LINE_THRESHOLD).
DefaultCharThreshold == 15000
DefaultLineThreshold == 300

\* int(os.environ.get(NAME, default)) with the fallback of its except branch:
\* an unset variable and one int() rejects both give the default.
EnvInt(value, default) == IF value.t = "int" THEN value.n ELSE default

\* The body text of render_function_output: the output, unwrapped when it is
\* (or decodes to) a mapping with an "output" key, dumped when it is no str.
OutputBody(entry) ==
  LET out_raw == Get(entry, "output")
      parsed == parse_json_string_maybe(out_raw)
      body == IF parsed.ok /\ IsDict(parsed.obj) /\ "output" \in DOMAIN parsed.obj.v
              THEN Get(parsed.obj, "output")
              ELSE out_raw
  IN IF IsStr(body) THEN body.v ELSE Dumps(body, TRUE, 0)

\* A faulty variant of is_large: both comparisons strict.
is_large_strict(body, char_thresh, line_thresh) ==
  (PyLen(body) > char_thresh) \/ (CountNewlines(body) + 1 > line_thresh)

is_large(body, char_thresh, line_thresh) ==
  (PyLen(body) >= char_thresh) \/ (CountNewlines(body) + 1 >= line_thresh)

\* A faulty variant of the "Plan updated" test: the body is compared untrimmed.
IsPlanUpdatedUntrimmed(body) == body = <<"Plan updated">>

\* body.strip() == "Plan updated"
IsPlanUpdated(body) == Strip(body) = <<"Plan updated">>

render_function_output(entry, ts_inline, env) ==
  LET body == OutputBody(entry)
      char_thresh == EnvInt(env.char, DefaultCharThreshold)
      line_thresh == EnvInt(env.line, DefaultLineThreshold)
      large == is_large(body, char_thresh, line_thresh)
  IN IF IsPlanUpdated(body) THEN EmptyFragment
     ELSE [kind |-> "func-output", ts |-> ts_inline, collapsed |-> large,
           aria_expanded |-> ~large,
           toggle_label |-> IF large THEN "Expand" ELSE "Collapse",
           body |-> esc(body)]

\* One labelled line of the session header: esc() of a value that is no str
\* raises.
HeaderField(d, key) ==
  IF ~Truthy(Get(d, key)) THEN [raised |-> FALSE, part |-> <<>>]
  ELSE IF ~IsStr(Get(d, key)) THEN [raised |-> TRUE, part |-> <<>>]
  ELSE [raised |-> FALSE, part |-> <<key>> \o esc(Get(d, key).v)]

render_session_header(meta, ts_inline) ==
  IF ~IsDict(meta) THEN Raise
  ELSE
    LET git == OrElse(Get(meta, "git"), EmptyDict)
        own == <<HeaderField(meta, "id"), HeaderField(meta, "timestamp")>>
        ofgit == IF Truthy(git)
                 THEN <<HeaderField(git, "repository_url"), HeaderField(git, "branch"),
                        HeaderField(git, "commit_hash")>>
                 ELSE <<>>
        fields == own \o ofgit
        parts == [i \in 1..Len(fields) |-> fields[i].part]
    IN IF Truthy(git) /\ ~IsDict(git) THEN Raise
       ELSE IF \E i \in 1..Len(fields) : fields[i].raised THEN Raise
       ELSE IF \A i \in 1..Len(parts) : parts[i] = <<>> THEN EmptyFragment
       ELSE [kind |-> "session", ts |-> ts_inline,
             parts |-> SelectSeq(parts, LAMBDA p : p # <<>>)]

\* The generic renderer of the dispatch's else branch.
render_event(entry, typ) ==
  [kind |-> "event", label |-> esc(PyStr(typ)), body |-> esc(Dumps(entry, TRUE, 0))]

\* ------------------------------------------------- render_jsonl_to_html

\* A physical line of the file: text json.loads rejects (or whitespace only),
\* or the JSON text of a value.
TextLine(s) == [t |-> "text", v |-> s]
JsonLine(val) == [t |-> "json", v |-> val]

\* line.strip() is empty: the loop skips the line.
IsBlank(line) == line.t = "text" /\ Strip(line.v) = <<>>
\* json.loads(line) raises JSONDecodeError.
IsUnparsed(line) == line.t = "text" /\ Strip(line.v) # <<>>
IsParsed(line) == line.t = "json"

\* "key in x": a mapping's keys, a str's substrings, a list's elements; any
\* other value is not iterable (TypeError).
Contains(x, key) ==
  CASE x.t = "dict" -> key \in DOMAIN x.v
    [] x.t = "str" -> \E i \in 1..Len(x.v) : x.v[i] = key
    [] x.t = "list" -> \E i \in 1..Len(x.v) : x.v[i] = JStr(<<key>>)
    [] OTHER -> FALSE
ContainsRaises(x) == x.t \notin {"dict", "str", "list"}

\* The header-indicating keys.
HeaderKeys == {"timestamp", "git", "instructions"}
HasHeaderKey(entry) == \E k \in HeaderKeys : Contains(entry, k)

\* The detection rule of the wrapped format.
IsWrappedShape(raw_obj) ==
  IsDict(raw_obj) /\ "payload" \in DOMAIN raw_obj.v /\ "timestamp" \in DOMAIN raw_obj.v

\* A faulty variant of the detection: the mode is decided again on every line.
DetectModeEveryLine(wrapped_mode, raw_obj) ==
  IF IsWrappedShape(raw_obj) THEN "True" ELSE "False"

\* The mode after a line that decoded: decided once, on the first such line.
DetectMode(wrapped_mode, raw_obj) ==
  IF wrapped_mode = "None"
  THEN IF IsWrappedShape(raw_obj) THEN "True" ELSE "False"
  ELSE wrapped_mode

\* The payload and the inline timestamp of a decoded line under the mode.
Unwrap(raw_obj, wrapped_mode) ==
  IF wrapped_mode = "True"
  THEN LET base == OrElse(raw_obj, EmptyDict) IN
       IF ~IsDict(base) THEN [raised |-> TRUE, entry |-> JNull, ts_inline |-> FALSE]
       ELSE [raised |-> FALSE,
             entry |-> OrElse(Get(base, "payload"), EmptyDict),
             ts_inline |-> Truthy(Get(base, "timestamp"))]
  ELSE [raised |-> FALSE, entry |-> raw_obj, ts_inline |-> FALSE]

\* The dispatch on the payload's type.
Dispatch(entry, ts_inline, env) ==
  LET typ == Get(entry, "type") IN
  CASE typ = JStr(<<"reasoning">>) -> render_reasoning(entry, ts_inline)
    [] typ = JStr(<<"message">>) -> render_message(entry, ts_inline)
    [] typ = JStr(<<"function_call">>) -> render_function_call(entry, ts_inline)
    [] typ = JStr(<<"function_call_output">>) -> render_function_output(entry, ts_inline, env)
    [] OTHER -> render_event(entry, typ)

\* A faulty variant of blocks.append: the fragment is put in front.
PrependBlock(blocks, n, fragment) == <<[line |-> n, frag |-> fragment]>> \o blocks

\* blocks.append(fragment); each entry remembers the number of the line that
\* produced it.
AppendBlock(blocks, n, fragment) == Append(blocks, [line |-> n, frag |-> fragment])

\* The "Unparsed Line" block.
UnparsedBlock(line) == [kind |-> "unparsed", body |-> esc(Strip(line.v))]

\* A faulty variant of the header test: the header-done flag is not consulted.
IsHeaderLineAlways(session_header_done, entry) == HasHeaderKey(entry)

\* The header test: not session_header_done and a header key in the payload.
IsHeaderLine(session_header_done, entry) == ~session_header_done /\ HasHeaderKey(entry)

\* A faulty variant of the state test: the type key is read instead of record_type.
IsStateRecordByType(entry) == IsDict(entry) /\ Get(entry, "type") = JStr(<<"state">>)

\* entry.get("record_type") == "state"
IsStateRecord(entry) == IsDict(entry) /\ Get(entry, "record_type") = JStr(<<"state">>)

\* The loop's local state after one more physical line (number n) of the file.
ProcessLine(st, line, n, env) ==
  IF IsBlank(line) THEN st
  ELSE IF IsUnparsed(line)
  THEN [st EXCEPT !.blocks = AppendBlock(st.blocks, n, UnparsedBlock(line))]
  ELSE
    LET raw_obj == line.v
        mode == DetectMode(st.wrapped_mode, raw_obj)
        u == Unwrap(raw_obj, mode)
        entry == u.entry
        decided == [st EXCEPT !.wrapped_mode = mode]
        raised == [decided EXCEPT !.raised = TRUE]
    IN
    IF u.raised THEN raised
    ELSE IF ~st.session_header_done /\ ContainsRaises(entry) THEN raised
    ELSE IF IsHeaderLine(st.session_header_done, entry)
    THEN LET h == render_session_header(entry, u.ts_inline) IN
         IF h = Raise THEN raised
         ELSE [decided EXCEPT !.blocks = AppendBlock(st.blocks, n, h),
                              !.session_header_done = TRUE]
    ELSE IF ~IsDict(entry) THEN raised
    ELSE IF IsStateRecord(entry) THEN decided
    ELSE LET b == Dispatch(entry, u.ts_inline, env) IN
         IF b = Raise THEN raised
         ELSE [decided EXCEPT !.blocks = AppendBlock(st.blocks, n, b)]

\* The locals of render_jsonl_to_html before the first line.
InitialLocals ==
  [blocks |-> <<>>, session_header_done |-> FALSE, wrapped_mode |-> "None",
   raised |-> FALSE]

\* ''.join(b for b in blocks if b): the block sequence of the document. The
\* shell around it (title, style, toolbar, script) is the same for every input.
Assemble(blocks) == SelectSeq(blocks, LAMBDA b : b.frag # EmptyFragment)

RECURSIVE RenderLines(_, _, _, _)
\* The loop over the lines from number n on; an exception ends it.
RenderLines(st, f, n, env) ==
  IF st.raised \/ n > Len(f) THEN st
  ELSE RenderLines(ProcessLine(st, f[n], n, env), f, n + 1, env)

\* render_jsonl_to_html(filepath) on a file that opens: the document, or the
\* exception that leaves the function.
render_jsonl_to_html(f, env) ==
  LET st == RenderLines(InitialLocals, f, 1, env) IN
  [raised |-> st.raised, html_doc |-> IF st.raised THEN <<>> ELSE Assemble(st.blocks)]

\* ----------------------------------------------------------------- state

VARIABLES
  pc,                   \* where the running function is
  file,                 \* the physical lines of the file being rendered
  lineno,               \* how many of them the loop has consumed
  blocks,               \* render_jsonl_to_html: blocks
  session_header_done,  \* render_jsonl_to_html: session_header_done
  wrapped_mode,         \* render_jsonl_to_html: wrapped_mode ("None" until decided)
  html_doc,             \* the block sequence of the returned document
  environ,              \* os.environ: the two collapse thresholds
  entry,                \* the payload handed to a block renderer
  result,               \* what the block renderer returned
  sources,              \* main --all: the *.jsonl files rglob yields, in its order
  cursor,               \* main --all: how many of them the loop has handled
  index_items,          \* main --all: index_items
  outputs,              \* the *.html files written, with their documents
  stderr,               \* the warnings printed, one per skipped file
  index_html,           \* index.html: its date groups and links, once written
  failure,              \* the exception that left main, if one did
  dom,                  \* the page: the block elements of the loaded document
  body_classes,         \* the page: the class list of <body>
  checked,              \* the page: the checked state of each filter checkbox
  pending,              \* the page: clipboard promises and timeouts not yet run
  code                  \* the page: one <code> element, its class and content

vars ==
  << pc, file, lineno, blocks, session_header_done, wrapped_mode, html_doc, environ,
     entry, result, sources, cursor, index_items, outputs, stderr, index_html, failure,
     dom, body_classes, checked, pending, code >>

renderVars == << file, lineno, blocks, session_header_done, wrapped_mode, html_doc >>
callVars == << entry, result >>
batchVars == << sources, cursor, index_items, outputs, stderr, index_html, failure >>
pageVars == << dom, body_classes, checked, pending, code >>

\* ---------------------------------------------------------------- bounds

\* The longest file, in physical lines.
MaxLines == 3

\* ---------------------------------------------------------------- inputs

EnvUnset == [t |-> "unset"]
EnvText == [t |-> "text"]
EnvIntValue(n) == [t |-> "int", n |-> n]

Stamp == JStr(<<"2025-09-09T20:09:59Z">>)

WrappedHeaderLine ==
  JsonLine(JDict([timestamp |-> Stamp,
                  payload |-> JDict([id |-> JStr(<<"s1">>), timestamp |-> Stamp,
                                     git |-> JDict([branch |-> JStr(<<"main">>)])])]))
WrappedUserLine ==
  JsonLine(JDict([timestamp |-> Stamp,
                  payload |-> JDict([type |-> JStr(<<"message">>), role |-> JStr(<<"user">>),
                                     content |-> JList(<<JDict([text |-> JStr(<<"hello">>)])>>)])]))
WrappedStateLine ==
  JsonLine(JDict([timestamp |-> Stamp,
                  payload |-> JDict([record_type |-> JStr(<<"state">>)])]))
DirectMetaLine ==
  JsonLine(JDict([id |-> JStr(<<"s1">>), timestamp |-> Stamp, instructions |-> JNull]))
InstructionsOnlyLine == JsonLine(JDict([instructions |-> JStr(<<"foo">>)]))
StateLine == JsonLine(JDict([record_type |-> JStr(<<"state">>)]))
StampedStateLine ==
  JsonLine(JDict([record_type |-> JStr(<<"state">>), timestamp |-> Stamp]))
AssistantLine ==
  JsonLine(JDict([type |-> JStr(<<"message">>), role |-> JStr(<<"assistant">>),
                  content |-> JList(<<JDict([text |-> JStr(<<"x", "<", "x">>)])>>)]))
PlanUpdatedLine ==
  JsonLine(JDict([type |-> JStr(<<"function_call_output">>),
                  output |-> JStr(<<"Plan updated">>)]))
UnknownTypeLine == JsonLine(JDict([type |-> JStr(<<"foo">>)]))
NumberLine == JsonLine(JNum(5))
StringLine == JsonLine(JStr(<<"timestamp">>))
BlankTextLine == TextLine(<<" ">>)
BrokenTextLine == TextLine(<<" ", "{", "<", "&", "x", " ">>)

\* The physical lines a file is made of.
Lines ==
  { BlankTextLine, BrokenTextLine, WrappedHeaderLine, WrappedUserLine, WrappedStateLine,
    DirectMetaLine, InstructionsOnlyLine, StateLine, StampedStateLine, AssistantLine,
    PlanUpdatedLine, UnknownTypeLine, NumberLine, StringLine }

Files == UNION { [1..n -> Lines] : n \in 0..MaxLines }

\* The values of the variables a specification does not use.
IdleRender ==
  /\ file = <<>> /\ lineno = 0 /\ blocks = <<>> /\ session_header_done = FALSE
  /\ wrapped_mode = "None" /\ html_doc = <<>>
IdleCall == entry = JNull /\ result = EmptyFragment
IdleBatch ==
  /\ sources = <<>> /\ cursor = 0 /\ index_items = <<>> /\ outputs = {}
  /\ stderr = <<>> /\ index_html = [written |-> FALSE, groups |-> <<>>]
  /\ failure = "none"
IdlePage ==
  /\ dom = <<>> /\ body_classes = {} /\ checked = <<>> /\ pending = <<>> /\ code = <<>>
DefaultEnviron == [char |-> EnvUnset, line |-> EnvUnset]

\* ------------------------------------------- render_jsonl_to_html, steps

Init ==
  /\ pc = "open"
  /\ file \in Files
  /\ lineno = 0
  /\ blocks = InitialLocals.blocks
  /\ session_header_done = InitialLocals.session_header_done
  /\ wrapped_mode = InitialLocals.wrapped_mode
  /\ html_doc = <<>>
  /\ environ = DefaultEnviron
  /\ IdleCall
  /\ IdleBatch
  /\ IdlePage

Locals ==
  [blocks |-> blocks, session_header_done |-> session_header_done,
   wrapped_mode |-> wrapped_mode, raised |-> FALSE]

\* p.open(...) succeeds.
OpenFile ==
  /\ pc = "open"
  /\ pc' = "loop"
  /\ UNCHANGED << renderVars, environ, pageVars, callVars, batchVars >>

\* p.open(...) raises FileNotFoundError, which the function re-raises.
FileNotFound ==
  /\ pc = "open"
  /\ pc' = "not_found"
  /\ UNCHANGED << renderVars, environ, pageVars, callVars, batchVars >>

\* One iteration of "for line in f".
Iterate ==
  LET st == ProcessLine(Locals, file[lineno + 1], lineno + 1, environ) IN
  /\ lineno' = lineno + 1
  /\ blocks' = st.blocks
  /\ session_header_done' = st.session_header_done
  /\ wrapped_mode' = st.wrapped_mode
  /\ pc' = IF st.raised THEN "raised" ELSE "loop"
  /\ UNCHANGED << file, html_doc, environ, pageVars, callVars, batchVars >>

\* The line is empty after strip(): continue.
BlankLine ==
  /\ pc = "loop" /\ lineno < Len(file) /\ IsBlank(file[lineno + 1])
  /\ Iterate

\* json.loads raises JSONDecodeError: the "Unparsed Line" block.
UnparsedLine ==
  /\ pc = "loop" /\ lineno < Len(file) /\ IsUnparsed(file[lineno + 1])
  /\ Iterate

\* The line decodes: mode detection, unwrapping, header, state, dispatch.
ParsedLine ==
  /\ pc = "loop" /\ lineno < Len(file) /\ IsParsed(file[lineno + 1])
  /\ Iterate

\* The end of the file: the document is assembled and returned.
Return ==
  /\ pc = "loop" /\ lineno = Len(file)
  /\ html_doc' = Assemble(blocks)
  /\ pc' = "done"
  /\ UNCHANGED << file, lineno, blocks, session_header_done, wrapped_mode, environ, pageVars,
                  callVars, batchVars >>

Next == OpenFile \/ FileNotFound \/ BlankLine \/ UnparsedLine \/ ParsedLine \/ Return

Spec == Init /\ [][Next]_vars

\* ---------------------------------------------- claims about the render loop

\* What a browser reads back from escaped text: the three entities decoded.
UnescTok(tok) ==
  CASE tok = "&amp;" -> "&"
    [] tok = "&lt;" -> "<"
    [] tok = "&gt;" -> ">"
    [] OTHER -> tok
HtmlText(markup) == [i \in 1..Len(markup) |-> UnescTok(markup[i])]
\* No character of the markup opens a tag or an entity of its own.
NoRawMarkup(markup) == \A i \in 1..Len(markup) : markup[i] \notin {"&", "<", ">"}

\* The lines consumed so far that decoded as JSON.
ParsedSoFar == {i \in 1..lineno : IsParsed(file[i])}
FirstOf(S) == CHOOSE i \in S : \A j \in S : i <= j

\* The payload of line i under the file's mode: the line's value in direct
\* mode, its payload member (or an empty mapping) in wrapped mode.
PayloadAt(i) ==
  LET raw == file[i].v IN
  IF wrapped_mode = "True"
  THEN IF IsDict(raw) /\ "payload" \in DOMAIN raw.v /\ Truthy(raw.v["payload"])
       THEN raw.v["payload"]
       ELSE EmptyDict
  ELSE raw

\* The consumed lines whose payload is a mapping with a header-indicating key.
HeaderCandidates ==
  {i \in ParsedSoFar :
     /\ IsDict(PayloadAt(i))
     /\ DOMAIN PayloadAt(i).v \cap {"timestamp", "git", "instructions"} # {}}

\* The consumed lines whose payload is a state record.
StateLines ==
  {i \in ParsedSoFar :
     /\ IsDict(PayloadAt(i))
     /\ "record_type" \in DOMAIN PayloadAt(i).v
     /\ PayloadAt(i).v["record_type"] = JStr(<<"state">>)}

BlocksOfLine(i) == {k \in 1..Len(blocks) : blocks[k].line = i}

\* C1: rendering a file never aborts because of a line's content: whatever the
\* lines are (not JSON, or a JSON value of any shape), no exception leaves
\* render_jsonl_to_html.
C1_NeverRaises == pc # "raised"

\* C2: a non-blank line that fails JSON decoding, wherever it stands and in
\* either mode, appends exactly one "Unparsed Line" block whose body reads back
\* as the line's text, leaves the mode and the header-done flag alone, and the
\* loop goes on with the next line.
C2_UnparsedLineOneBlock ==
  [][ (pc = "loop" /\ lineno < Len(file) /\ file[lineno + 1].t = "text"
       /\ Strip(file[lineno + 1].v) # <<>>)
      => /\ Len(blocks') = Len(blocks) + 1
         /\ SubSeq(blocks', 1, Len(blocks)) = blocks
         /\ blocks'[Len(blocks')].line = lineno + 1
         /\ blocks'[Len(blocks')].frag.kind = "unparsed"
         /\ NoRawMarkup(blocks'[Len(blocks')].frag.body)
         /\ HtmlText(blocks'[Len(blocks')].frag.body) = Strip(file[lineno + 1].v)
         /\ wrapped_mode' = wrapped_mode
         /\ session_header_done' = session_header_done
         /\ lineno' = lineno + 1
         /\ pc' = "loop" ]_vars

\* An unparsed line was rendered in wrapped mode, after the header, with
\* characters that need escaping.
C2_Witness ==
  /\ pc = "loop" /\ lineno >= 2 /\ wrapped_mode = "True" /\ session_header_done
  /\ file[lineno].t = "text"
  /\ \E i \in 1..Len(file[lineno].v) : file[lineno].v[i] \in {"&", "<"}
  /\ Len(blocks) >= 1
  /\ blocks[Len(blocks)].frag.kind = "unparsed"
  /\ blocks[Len(blocks)].line = lineno

\* C3: the mode is undetermined until the first line that decodes, is what that
\* line alone makes it (wrapped iff a mapping with a timestamp and a payload
\* key), and stays so for every later line.
C3_ModeSetOnceByFirstParsedLine ==
  IF ParsedSoFar = {} THEN wrapped_mode = "None"
  ELSE LET first == file[FirstOf(ParsedSoFar)].v IN
       wrapped_mode = IF first.t = "dict" /\ {"timestamp", "payload"} \subseteq DOMAIN first.v
                      THEN "True" ELSE "False"

\* The first decoded line (after a line that did not decode) was wrapped, and a
\* later direct-shaped line has been processed under the wrapped mode.
C3_Witness ==
  /\ lineno = 3 /\ pc = "loop"
  /\ file[1].t = "text" /\ file[2] = WrappedUserLine /\ file[3] = DirectMetaLine
  /\ wrapped_mode = "True"

\* C4: at most one session-header block; it comes from the first payload with
\* a timestamp, git or instructions key, that line yields nothing else, and no
\* later such payload is rendered as a header.
C4_OneHeaderFromFirstCandidate ==
  /\ Cardinality({k \in 1..Len(blocks) : blocks[k].frag.kind = "session"}) <= 1
  /\ \A k \in 1..Len(blocks) :
       blocks[k].frag.kind = "session"
       => /\ HeaderCandidates # {}
          /\ blocks[k].line = FirstOf(HeaderCandidates)
          /\ BlocksOfLine(blocks[k].line) = {k}
  /\ (HeaderCandidates # {} /\ pc # "raised") => session_header_done
  /\ \A i \in HeaderCandidates : \A k \in BlocksOfLine(i) :
       i # FirstOf(HeaderCandidates) => blocks[k].frag.kind # "session"

\* A header was rendered and a later payload with header keys went to the
\* dispatch instead.
C4_Witness ==
  /\ pc = "loop" /\ lineno = 3
  /\ HeaderCandidates = {2, 3}
  /\ Len(blocks) >= 2
  /\ blocks[Len(blocks) - 1].frag.kind = "session" /\ blocks[Len(blocks) - 1].line = 2
  /\ blocks[Len(blocks)].frag.kind = "event" /\ blocks[Len(blocks)].line = 3

\* C5, as claimed: a line whose payload is a state record contributes no block
\* of any kind, at every position and whatever other keys it carries.
C5_StateNeverRendered ==
  \A i \in StateLines : \A k \in BlocksOfLine(i) : blocks[k].frag = EmptyFragment

\* C5, amended: a state record is rendered only as the header-triggering line
\* (the first payload with a header key); anywhere else it contributes nothing.
C5_StateOnlyAsHeader ==
  \A i \in StateLines :
    /\ \A k \in BlocksOfLine(i) :
         /\ blocks[k].frag.kind \in {"session", "empty"}
         /\ i \in HeaderCandidates /\ i = FirstOf(HeaderCandidates)
    /\ (i \notin HeaderCandidates \/ i # FirstOf(HeaderCandidates))
         => BlocksOfLine(i) = {}

\* A state record that carries a timestamp came after the header and was
\* dropped; the next line was rendered.
C5_Witness ==
  /\ pc = "loop" /\ lineno = 3
  /\ file[1] = DirectMetaLine /\ file[2] = StampedStateLine
  /\ BlocksOfLine(1) # {} /\ BlocksOfLine(2) = {} /\ BlocksOfLine(3) # {}

\* C6: every line contributes at most one block, none for a blank line, the
\* blocks stand in line order, and the returned document holds exactly the
\* non-empty ones, each once, in that order.
C6_DocumentIsFragmentsInOrder ==
  /\ \A k \in 1..Len(blocks) :
       /\ blocks[k].line \in 1..lineno
       /\ ~(file[blocks[k].line].t = "text" /\ Strip(file[blocks[k].line].v) = <<>>)
  /\ \A j, k \in 1..Len(blocks) : j < k => blocks[j].line < blocks[k].line
  /\ pc = "done" =>
       /\ Len(html_doc) = Cardinality({k \in 1..Len(blocks) : blocks[k].frag # EmptyFragment})
       /\ \A k \in 1..Len(html_doc) :
            /\ html_doc[k].frag # EmptyFragment
            /\ \E j \in 1..Len(blocks) : blocks[j] = html_doc[k]
       /\ \A j, k \in 1..Len(html_doc) : j < k => html_doc[j].line < html_doc[k].line

\* A document of two blocks from a file of three lines, one of which yielded
\* an empty fragment.
C6_Witness ==
  /\ pc = "done" /\ Len(file) = 3
  /\ Len(blocks) = 3 /\ Len(html_doc) = 2
  /\ html_doc[1].frag.kind # html_doc[2].frag.kind

\* ------------------------------------------- render_function_output, alone

\* The longest output text, in tokens.
MaxBody == 3

BodyAlphabet == {" ", "\n", "x", "Plan updated"}
BodyTexts == UNION { [1..n -> BodyAlphabet] : n \in 0..MaxBody }

\* The output member of a function_call_output payload: a plain str, a str
\* holding the JSON text of a mapping, a mapping, or another JSON value.
OutputValues ==
  { JStr(s) : s \in BodyTexts }
  \cup { JEnc(JDict([output |-> JStr(s)])) : s \in BodyTexts }
  \cup { JDict([output |-> JStr(s)]) : s \in BodyTexts }
  \cup { JNull, JNum(5), JList(<<JNum(0), JNum(5)>>), JList(<<>>),
         JDict([metadata |-> JNum(0)]),
         JDict([output |-> JNum(5)]),
         JDict([output |-> JList(<<JNum(0), JNum(5), JNum(0)>>)]),
         JEnc(JStr(<<"Plan updated">>)),
         JEnc(JDict([output |-> JNull, metadata |-> JNum(0)])),
         JEnc(JDict([metadata |-> JStr(<<"Plan updated">>)])),
         JEnc(JList(<<JStr(<<"Plan updated">>)>>)) }

FunctionOutputEntries ==
  { JDict([type |-> JStr(<<"function_call_output">>), output |-> o]) : o \in OutputValues }
  \cup { JDict([type |-> JStr(<<"function_call_output">>)]) }

\* The two threshold variables: unset, not a number, or small numbers around
\* which the output texts fall.
Environs ==
  [char : {EnvUnset, EnvText, EnvIntValue(2), EnvIntValue(3)},
   line : {EnvUnset, EnvText, EnvIntValue(2), EnvIntValue(3)}]

InitFunctionOutput ==
  /\ pc = "call"
  /\ entry \in FunctionOutputEntries
  /\ environ \in Environs
  /\ result = EmptyFragment
  /\ IdleRender
  /\ IdleBatch
  /\ IdlePage

CallFunctionOutput ==
  /\ pc = "call"
  /\ \E ts_inline \in BOOLEAN : result' = render_function_output(entry, ts_inline, environ)
  /\ pc' = "returned"
  /\ UNCHANGED << renderVars, environ, pageVars, entry, batchVars >>

NextFunctionOutput == CallFunctionOutput

SpecFunctionOutput == InitFunctionOutput /\ [][NextFunctionOutput]_vars

\* ----------------------------------------- claims about render_function_output

\* The output after unwrapping: the "output" member when the value is, or is
\* the JSON text of, a mapping that has one; the value itself otherwise
\* (None when the payload has no output).
UnwrappedOutput ==
  LET out == IF "output" \in DOMAIN entry.v THEN entry.v["output"] ELSE JNull
      obj == IF out.t = "str" /\ out.enc # NotJson THEN out.enc ELSE out
  IN IF obj.t = "dict" /\ "output" \in DOMAIN obj.v THEN obj.v["output"] ELSE out

\* The text is "Plan updated" with nothing but whitespace around it.
IsPlanUpdatedText(s) ==
  \E k \in 1..Len(s) :
    /\ s[k] = "Plan updated"
    /\ \A m \in 1..Len(s) : m # k => s[m] \in {" ", "\n"}

\* C7: render_function_output returns no block exactly when the unwrapped
\* output is a str that trims to "Plan updated"; for every other output (any
\* str, structured value, missing) it returns one Function Output block.
C7_EmptyIffPlanUpdated ==
  pc = "returned" =>
    /\ result = EmptyFragment
         <=> (UnwrappedOutput.t = "str" /\ IsPlanUpdatedText(UnwrappedOutput.v))
    /\ result # EmptyFragment => result.kind = "func-output"

\* A JSON-encoded output whose inner text has whitespace around "Plan updated"
\* was suppressed.
C7_Witness ==
  /\ pc = "returned" /\ result = EmptyFragment
  /\ "output" \in DOMAIN entry.v
  /\ entry.v["output"].t = "str" /\ entry.v["output"].enc # NotJson
  /\ Len(UnwrappedOutput.v) = 3

\* The text the block shows, and the thresholds in force.
ShownBody == HtmlText(result.body)
CharThreshold == IF environ.char.t = "int" THEN environ.char.n ELSE DefaultCharThreshold
LineThreshold == IF environ.line.t = "int" THEN environ.line.n ELSE DefaultLineThreshold

\* C8: a body at least as long as the character threshold is rendered
\* collapsed; one shorter than it, with fewer lines than the line threshold, is
\* rendered expanded.
C8_CollapsedAtThreshold ==
  (pc = "returned" /\ result # EmptyFragment) =>
    /\ PyLen(ShownBody) >= CharThreshold => result.collapsed
    /\ (PyLen(ShownBody) < CharThreshold /\ CountNewlines(ShownBody) + 1 < LineThreshold)
         => ~result.collapsed

\* A body exactly as long as the character threshold, with fewer lines than
\* the line threshold, came out collapsed.
C8_Witness ==
  /\ pc = "returned" /\ result # EmptyFragment
  /\ PyLen(ShownBody) = CharThreshold
  /\ CountNewlines(ShownBody) + 1 < LineThreshold
  /\ result.collapsed /\ ~result.aria_expanded /\ result.toggle_label = "Expand"

\* --------------------------------------------- render_function_call, alone

\* The longest text of one command element, in tokens.
MaxPatch == 3

PatchAlphabet ==
  {"*** Begin Patch", "*** End Patch", "\n", "&", "EACUTE", "EURO", "GRIN", "SURR"}
PatchTexts == UNION { [1..n -> PatchAlphabet] : n \in 0..MaxPatch }

\* Command lists: the apply_patch tool with its patch, a shell command with the
\* text as an argument, the text alone.
Commands ==
  { JList(<<JStr(<<"apply_patch">>), JStr(s)>>) : s \in PatchTexts }
  \cup { JList(<<JStr(<<"ls">>), JStr(s)>>) : s \in PatchTexts }
  \cup { JList(<<JStr(s)>>) : s \in PatchTexts }
  \cup { JList(<<JStr(<<"apply_patch">>)>>), JList(<<JStr(<<"ls">>), JNum(5)>>),
         JList(<<JStr(<<"apply_patch">>), JNum(5)>>), JStr(<<"ls">>), JNull }

APatch == JList(<<JStr(<<"apply_patch">>), JStr(<<"*** Begin Patch", "\n", "*** End Patch">>)>>)
APlan ==
  JDict([explanation |-> JStr(<<"x">>),
         plan |-> JList(<<JDict([step |-> JStr(<<"x", "&">>), status |-> JStr(<<"completed">>)]),
                          JDict([step |-> JStr(<<"x">>)])>>)])

FunctionCallEntries ==
  { JDict([type |-> JStr(<<"function_call">>), name |-> JStr(<<"shell">>),
           arguments |-> JEnc(JDict([command |-> c]))]) : c \in Commands }
  \cup { JDict([type |-> JStr(<<"function_call">>), name |-> JStr(<<"shell">>),
                arguments |-> JDict([command |-> c])]) : c \in Commands }
  \cup { JDict([type |-> JStr(<<"function_call">>), name |-> JStr(<<"update_plan">>),
                arguments |-> JEnc(APlan)]),
         JDict([type |-> JStr(<<"function_call">>), name |-> JStr(<<"update_plan">>),
                arguments |-> JDict([command |-> APatch])]),
         JDict([type |-> JStr(<<"function_call">>), name |-> JStr(<<"update_plan">>),
                arguments |-> JStr(<<"x">>)]),
         JDict([type |-> JStr(<<"function_call">>),
                arguments |-> JEnc(JDict([command |-> APatch]))]),
         JDict([type |-> JStr(<<"function_call">>), name |-> JNull,
                arguments |-> JEnc(JDict([command |-> APatch]))]),
         JDict([type |-> JStr(<<"function_call">>), name |-> JNull,
                arguments |-> JStr(<<"x", "&">>)]),
         JDict([type |-> JStr(<<"function_call">>), name |-> JStr(<<"shell">>)]),
         JDict([type |-> JStr(<<"function_call">>), name |-> JStr(<<"shell">>),
                arguments |-> JEnc(JList(<<JStr(<<"apply_patch">>)>>))]),
         JDict([type |-> JStr(<<"function_call">>), name |-> JStr(<<"shell">>),
                arguments |-> JDict([metadata |-> JNum(0)])]) }

InitFunctionCall ==
  /\ pc = "call"
  /\ entry \in FunctionCallEntries
  /\ environ = DefaultEnviron
  /\ result = EmptyFragment
  /\ IdleRender
  /\ IdleBatch
  /\ IdlePage

CallFunctionCall ==
  /\ pc = "call"
  /\ \E ts_inline \in BOOLEAN : result' = render_function_call(entry, ts_inline)
  /\ pc' = "returned"
  /\ UNCHANGED << renderVars, environ, pageVars, entry, batchVars >>

NextFunctionCall == CallFunctionCall

SpecFunctionCall == InitFunctionCall /\ [][NextFunctionCall]_vars

\* ------------------------------------------ claims about render_function_call

\* atob: the value of a base64 character, and the bytes of a base64 text.
B64Value(c) == CHOOSE n \in 0..63 : B64Alphabet[n + 1] = c

RECURSIVE B64Decode(_)
B64Decode(s) ==
  IF Len(s) < 4 THEN <<>>
  ELSE LET b1 == B64Value(s[1]) * 4 + (B64Value(s[2]) \div 16)
           b2 == (B64Value(s[2]) % 16) * 16 + (B64Value(s[3]) \div 4)
           b3 == (B64Value(s[3]) % 4) * 64 + B64Value(s[4])
       IN IF s[3] = "=" THEN <<b1>>
          ELSE IF s[4] = "=" THEN <<b1, b2>>
          ELSE <<b1, b2, b3>> \o B64Decode(SubSeq(s, 5, Len(s)))

RECURSIVE Utf8Decode(_)
\* The code points of well-formed UTF-8 bytes.
Utf8Decode(b) ==
  IF b = <<>> THEN <<>>
  ELSE IF b[1] < 128 THEN <<b[1]>> \o Utf8Decode(SubSeq(b, 2, Len(b)))
  ELSE IF b[1] < 224
  THEN <<(b[1] - 192) * 64 + (b[2] - 128)>> \o Utf8Decode(SubSeq(b, 3, Len(b)))
  ELSE IF b[1] < 240
  THEN <<(b[1] - 224) * 4096 + (b[2] - 128) * 64 + (b[3] - 128)>>
       \o Utf8Decode(SubSeq(b, 4, Len(b)))
  ELSE <<(b[1] - 240) * 262144 + (b[2] - 128) * 4096 + (b[3] - 128) * 64 + (b[4] - 128)>>
       \o Utf8Decode(SubSeq(b, 5, Len(b)))

\* The call's arguments as a value, and the patch its command list yields.
ArgumentsObject ==
  LET a == IF "arguments" \in DOMAIN entry.v THEN entry.v["arguments"] ELSE JNull
  IN IF a.t = "str" /\ a.enc # NotJson THEN a.enc ELSE a
ExtractedPatch ==
  IF ArgumentsObject.t = "dict" /\ "command" \in DOMAIN ArgumentsObject.v
  THEN extract_patch_from_command(ArgumentsObject.v["command"])
  ELSE NoPatch

\* C9: when a patch is extracted from the call's command list, the Apply Patch
\* block's data-raw-b64 attribute base64-decodes (as UTF-8) to exactly the
\* extracted patch text, and the block body shows that same text, escaped.
C9_PatchRoundTrip ==
  pc = "returned" =>
    /\ (result # Raise /\ result # EmptyFragment /\ result.kind = "apply-patch") =>
         /\ ExtractedPatch.found
         /\ Utf8Decode(B64Decode(HtmlText(result.raw_b64))) = CodePoints(ExtractedPatch.text)
         /\ HtmlText(result.body) = ExtractedPatch.text
         /\ NoRawMarkup(result.body)
    /\ (ExtractedPatch.found /\ result # Raise
        /\ ~("name" \in DOMAIN entry.v /\ entry.v["name"] = JStr(<<"update_plan">>)))
         => result.kind = "apply-patch"

\* A patch found by its markers inside a shell argument of JSON-encoded
\* arguments, holding an ampersand, with a padded base64 text.
C9_Witness ==
  /\ pc = "returned" /\ result.kind = "apply-patch"
  /\ entry.v["arguments"].t = "str"
  /\ ArgumentsObject.v["command"].v[1] = JStr(<<"ls">>)
  /\ ExtractedPatch.text = <<"*** Begin Patch", "&", "*** End Patch">>
  /\ result.raw_b64[Len(result.raw_b64)] = "="

\* ------------------------------------------------------- main --all (batch)

\* The most *.jsonl files under the sessions directory.
MaxFiles == 2

SessionFile == <<WrappedHeaderLine, WrappedUserLine, BrokenTextLine>>
DirectFile == <<DirectMetaLine, AssistantLine, StampedStateLine>>
RaisingFile == <<DirectMetaLine, NumberLine>>
Contents == {SessionFile, DirectFile, RaisingFile}

\* The date and time a file's name (or, failing that, its mtime) gives.
Stamps ==
  {[date |-> 1, time |-> 1], [date |-> 1, time |-> 2], [date |-> 2, time |-> 1]}

\* The discovered files; file number i has the relative path i.
SourceSets == UNION { [1..n -> [lines : Contents, stamp : Stamps]] : n \in 0..MaxFiles }

InitBatch ==
  /\ pc = "start"
  /\ sources \in SourceSets
  /\ cursor = 0
  /\ index_items = <<>>
  /\ outputs = {}
  /\ stderr = <<>>
  /\ index_html = [written |-> FALSE, groups |-> <<>>]
  /\ failure = "none"
  /\ environ = DefaultEnviron
  /\ IdleRender
  /\ IdleCall
  /\ IdlePage

\* sort_key with reverse=True: later time first, then the greater path.
SortsBefore(a, b) ==
  (a.time > b.time) \/ (a.time = b.time /\ a.rel_html > b.rel_html)

RECURSIVE SortGroup(_)
SortGroup(S) ==
  IF S = {} THEN <<>>
  ELSE LET top == CHOOSE a \in S : \A b \in S \ {a} : SortsBefore(a, b)
       IN <<top>> \o SortGroup(S \ {top})

RECURSIVE DatesSorted(_)
\* sorted(groups.keys(), reverse=True)
DatesSorted(D) ==
  IF D = {} THEN <<>>
  ELSE LET top == CHOOSE d \in D : \A e \in D : d >= e
       IN <<top>> \o DatesSorted(D \ {top})

\* The index page: one heading per date, newest first, each with its links.
IndexDocument(items) ==
  LET all == {items[k] : k \in 1..Len(items)}
      dates == DatesSorted({it.date : it \in all})
  IN [k \in 1..Len(dates) |->
        LET group == SortGroup({it \in all : it.date = dates[k]})
        IN [date |-> dates[k], links |-> [j \in 1..Len(group) |-> group[j].rel_html]]]

\* A faulty variant of the except branch: the exception leaves main.
AfterFileFailurePropagates(cause) == [pc |-> "crashed", failure |-> cause]

\* except Exception: the warning is printed and the loop continues.
AfterFileFailure(cause) == [pc |-> "batch", failure |-> "none"]

\* The sessions directory does not exist: sys.exit(2).
NoSessionsDir ==
  /\ pc = "start"
  /\ pc' = "exit2"
  /\ UNCHANGED << renderVars, environ, pageVars, callVars, batchVars >>

\* The directory exists: the loop over rglob("*.jsonl") starts.
Discover ==
  /\ pc = "start"
  /\ pc' = "batch"
  /\ UNCHANGED << renderVars, environ, pageVars, callVars, batchVars >>

\* out_html.parent.mkdir raises: it stands outside the try, the exception
\* leaves main.
MkdirFails ==
  /\ pc = "batch" /\ cursor < Len(sources)
  /\ pc' = "crashed"
  /\ failure' = "mkdir"
  /\ UNCHANGED << renderVars, environ, pageVars, callVars, sources, cursor, index_items, outputs,
                  stderr, index_html >>

\* The except branch for file number cursor + 1: the warning names the file
\* and the exception.
SkipFile(cause) ==
  /\ stderr' = Append(stderr, [src |-> cursor + 1, e |-> cause])
  /\ cursor' = cursor + 1
  /\ pc' = AfterFileFailure(cause).pc
  /\ failure' = AfterFileFailure(cause).failure
  /\ UNCHANGED << renderVars, environ, pageVars, callVars, sources, index_items, outputs, index_html >>

\* render_jsonl_to_html raises on a line of the file.
RenderRaises ==
  /\ pc = "batch" /\ cursor < Len(sources)
  /\ render_jsonl_to_html(sources[cursor + 1].lines, environ).raised
  /\ SkipFile("render")

\* The file cannot be opened or read (FileNotFoundError, UnicodeDecodeError).
ReadFails ==
  /\ pc = "batch" /\ cursor < Len(sources)
  /\ SkipFile("read")

\* The document is rendered and out_html.write_text raises.
WriteFails ==
  /\ pc = "batch" /\ cursor < Len(sources)
  /\ ~render_jsonl_to_html(sources[cursor + 1].lines, environ).raised
  /\ SkipFile("write")

\* The document is rendered and written, and the file joins the index.
ConvertFile ==
  /\ pc = "batch" /\ cursor < Len(sources)
  /\ ~render_jsonl_to_html(sources[cursor + 1].lines, environ).raised
  /\ outputs' = outputs \cup
       {[rel_html |-> cursor + 1,
         html_doc |-> render_jsonl_to_html(sources[cursor + 1].lines, environ).html_doc]}
  /\ index_items' = Append(index_items,
                           [date |-> sources[cursor + 1].stamp.date,
                            time |-> sources[cursor + 1].stamp.time,
                            rel_html |-> cursor + 1])
  /\ cursor' = cursor + 1
  /\ UNCHANGED << pc, renderVars, environ, pageVars, callVars, sources, stderr, index_html, failure >>

\* After the loop: index.html is built and written.
WriteIndex ==
  /\ pc = "batch" /\ cursor = Len(sources)
  /\ index_html' = [written |-> TRUE, groups |-> IndexDocument(index_items)]
  /\ pc' = "done"
  /\ UNCHANGED << renderVars, environ, pageVars, callVars, sources, cursor, index_items, outputs,
                  stderr, failure >>

\* Writing index.html raises.
IndexWriteFails ==
  /\ pc = "batch" /\ cursor = Len(sources)
  /\ pc' = "crashed"
  /\ failure' = "index"
  /\ UNCHANGED << renderVars, environ, pageVars, callVars, sources, cursor, index_items, outputs,
                  stderr, index_html >>

NextBatch ==
  \/ NoSessionsDir \/ Discover \/ MkdirFails \/ RenderRaises \/ ReadFails \/ WriteFails
  \/ ConvertFile \/ WriteIndex \/ IndexWriteFails

SpecBatch == InitBatch /\ [][NextBatch]_vars

\* ---------------------------------------------------- claims about the batch

Converted == {o.rel_html : o \in outputs}
Warned == {stderr[k].src : k \in 1..Len(stderr)}
IndexLinks ==
  UNION { {index_html.groups[g].links[k] : k \in 1..Len(index_html.groups[g].links)} :
          g \in 1..Len(index_html.groups) }
IndexLinkCount ==
  LET n[g \in 0..Len(index_html.groups)] ==
        IF g = 0 THEN 0 ELSE n[g - 1] + Len(index_html.groups[g].links)
  IN n[Len(index_html.groups)]

\* C10: a failure while rendering or writing one file is reported and the file
\* skipped; it never ends the batch. Every file handled so far is either
\* converted or warned about, the index items are exactly the converted files,
\* and at the end index.html is written and links exactly those.
C10_BatchIsolatesFailures ==
  /\ failure \notin {"render", "read", "write"}
  /\ pc = "crashed" <=> failure # "none"
  /\ pc \in {"batch", "done"} =>
       /\ Converted \cup Warned = 1..cursor
       /\ Converted \cap Warned = {}
       /\ Len(stderr) = Cardinality(Warned)
       /\ {index_items[k].rel_html : k \in 1..Len(index_items)} = Converted
       /\ Len(index_items) = Cardinality(Converted)
       /\ \A i \in 1..cursor :
            render_jsonl_to_html(sources[i].lines, environ).raised => i \in Warned
  /\ pc = "done" =>
       /\ cursor = Len(sources)
       /\ index_html.written
       /\ IndexLinks = Converted
       /\ IndexLinkCount = Cardinality(Converted)

\* The first of two files failed to render, the second was still converted,
\* and the index, written, links the second alone.
C10_Witness ==
  /\ pc = "done" /\ Len(sources) = 2
  /\ Warned = {1} /\ Converted = {2}
  /\ index_html.written /\ IndexLinks = {2}

\* --------------------------------- render_function_output, strict thresholds

\* C14: a Function Output block is collapsed only if its character count is
\* greater than the character threshold or its line count greater than the
\* line threshold; a body with both counts at most their thresholds is
\* expanded.
C14_LargeOnlyAboveThreshold ==
  (pc = "returned" /\ result # EmptyFragment) =>
    /\ result.collapsed =>
         (PyLen(ShownBody) > CharThreshold \/ CountNewlines(ShownBody) + 1 > LineThreshold)
    /\ (PyLen(ShownBody) <= CharThreshold /\ CountNewlines(ShownBody) + 1 <= LineThreshold)
         => ~result.collapsed

\* ---------------------------------------------- render_plan_update, alone

\* The most entries of a plan.
MaxPlan == 2

\* The members of a plan entry: a step, and a status that is absent, null, a
\* str in several spellings, or a number.
PlanStatuses ==
  { JStr(<<"completed">>), JStr(<<"in_progress">>), JStr(<<"pending">>),
    JStr(<<"Completed">>), JStr(<<"COMPLETED">>), JStr(<<"In_Progress">>),
    JStr(<<"done">>), JStr(<<>>), JNull, JNum(0), JNum(5) }
PlanEntries ==
  { JDict([step |-> JStr(<<"x", "&">>), status |-> st]) : st \in PlanStatuses }
  \cup { JDict([step |-> JStr(<<"x">>)]), JNull }
PlanArguments ==
  { JDict([explanation |-> JStr(<<"x">>), plan |-> JList(p)]) :
      p \in UNION { [1..n -> PlanEntries] : n \in 0..MaxPlan } }
  \cup { JDict([plan |-> JNull]), EmptyDict }

InitPlanUpdate ==
  /\ pc = "call"
  /\ entry \in PlanArguments
  /\ environ = DefaultEnviron
  /\ result = EmptyFragment
  /\ IdleRender
  /\ IdleBatch
  /\ IdlePage

CallPlanUpdate ==
  /\ pc = "call"
  /\ \E ts_inline \in BOOLEAN : result' = render_plan_update(entry, ts_inline)
  /\ pc' = IF result' = Raise THEN "raised" ELSE "returned"
  /\ UNCHANGED << renderVars, environ, pageVars, entry, batchVars >>

NextPlanUpdate == CallPlanUpdate

SpecPlanUpdate == InitPlanUpdate /\ [][NextPlanUpdate]_vars

\* ------------------------------------------- claims about render_plan_update

\* The status member of plan entry number i as written in the arguments:
\* JNull when the entry has none (or is null itself).
WrittenStatus(i) ==
  LET it == entry.v["plan"].v[i]
  IN IF it.t = "dict" /\ "status" \in DOMAIN it.v THEN it.v["status"] ELSE JNull

\* C15: the glyph of a plan entry is the check mark iff its status is exactly
\* "completed", the hourglass iff it is exactly "in_progress", and the empty
\* box for every other status, a missing one and other letter cases included.
C15_GlyphByExactStatus ==
  pc = "returned" =>
    \A i \in 1..Len(result.items) :
      /\ result.items[i].glyph = "check" <=> WrittenStatus(i) = JStr(<<"completed">>)
      /\ result.items[i].glyph = "hourglass" <=> WrittenStatus(i) = JStr(<<"in_progress">>)
      /\ result.items[i].glyph \in {"check", "hourglass", "box"}

\* ------------------------------------------------- the page in the browser

\* The data-class values of the toolbar's filter checkboxes.
FilterKinds == {"user", "assistant", "reasoning", "func-call", "func-output", "plan"}

\* 'hide-' + cls, the body class applyFilterState toggles (and the selector of
\* the style rule ".hide-cls .block.cls { display: none; }").
HideClass(cls) == <<"hide-", cls>>

NoElement == [tag |-> "none"]

\* The class attribute of the element a fragment's markup opens with.
BlockClasses(frag) ==
  CASE frag.kind = "session" -> {"session"}
    [] frag.kind = "reasoning" -> {"block", "reasoning", "collapsible"}
    [] frag.kind \in {"user", "assistant"} -> {"block", frag.kind}
    [] frag.kind = "plan" -> {"block", "plan"}
    [] frag.kind = "apply-patch" -> {"block", "func-call", "collapsible", "apply-patch"}
    [] frag.kind = "func-call" -> {"block", "func-call"}
    [] frag.kind = "func-output" ->
         {"block", "func-output", "collapsible"}
           \cup (IF frag.collapsed THEN {"collapsed"} ELSE {})
    [] frag.kind \in {"unparsed", "event"} -> {"block", "func-output"}

\* The element the browser builds from a fragment: its class list, its toggle
\* button (aria-expanded, text) and its copy button, where the markup has them.
BlockElement(frag) ==
  [classes |-> BlockClasses(frag),
   toggle |-> IF frag.kind \in {"reasoning", "apply-patch", "func-output"}
              THEN [tag |-> "button",
                    aria_expanded |-> IF frag.aria_expanded THEN "true" ELSE "false",
                    textContent |-> frag.toggle_label]
              ELSE NoElement,
   copy |-> IF frag.kind = "apply-patch"
            THEN [tag |-> "button", textContent |-> frag.copy_label]
            ELSE NoElement]

\* A faulty variant of setCollapsed: the button's text is left as it was.
setCollapsedKeepsLabel(el, collapsed) ==
  [el EXCEPT
     !.classes = IF collapsed THEN @ \cup {"collapsed"} ELSE @ \ {"collapsed"},
     !.toggle = IF @ = NoElement THEN @
                ELSE [@ EXCEPT !.aria_expanded = IF collapsed THEN "false" ELSE "true"]]

setCollapsed(el, collapsed) ==
  [el EXCEPT
     !.classes = IF collapsed THEN @ \cup {"collapsed"} ELSE @ \ {"collapsed"},
     !.toggle = IF @ = NoElement THEN @
                ELSE [@ EXCEPT !.aria_expanded = IF collapsed THEN "false" ELSE "true",
                               !.textContent = IF collapsed THEN "Expand" ELSE "Collapse"]]

\* A faulty variant of applyFilterState: classList.toggle without its force
\* argument flips every class on every call.
applyFilterStateNoForce(classList, boxes) ==
  {HideClass(cls) : cls \in {k \in FilterKinds : HideClass(k) \notin classList}}

\* applyFilterState: classList.toggle('hide-' + cls, !cb.checked) for every
\* filter checkbox.
applyFilterState(classList, boxes) ==
  (classList \ {HideClass(cls) : cls \in {k \in FilterKinds : boxes[k]}})
    \cup {HideClass(cls) : cls \in {k \in FilterKinds : ~boxes[k]}}

\* Sample lines with collapsible blocks.
ReasoningLine ==
  JsonLine(JDict([type |-> JStr(<<"reasoning">>),
                  summary |-> JList(<<JDict([type |-> JStr(<<"summary_text">>),
                                             text |-> JStr(<<"x">>)])>>)]))
PatchCallLine ==
  JsonLine(JDict([type |-> JStr(<<"function_call">>), name |-> JStr(<<"shell">>),
                  arguments |-> JEnc(JDict([command |-> APatch]))]))
PlanCallLine ==
  JsonLine(JDict([type |-> JStr(<<"function_call">>), name |-> JStr(<<"update_plan">>),
                  arguments |-> JEnc(APlan)]))
OutputLine ==
  JsonLine(JDict([type |-> JStr(<<"function_call_output">>), output |-> JStr(<<"x", "x">>)]))

\* The files whose documents are loaded, and the thresholds they are rendered
\* under: the two-character output is large under the second.
PageFiles ==
  { <<DirectMetaLine, ReasoningLine, PatchCallLine>>,
    <<AssistantLine, OutputLine, BrokenTextLine>>,
    <<PatchCallLine, OutputLine, ReasoningLine>>,
    <<WrappedUserLine, WrappedUserLine>>,
    <<OutputLine, PlanCallLine, UnknownTypeLine>> }
PageEnvirons == {DefaultEnviron, [char |-> EnvIntValue(2), line |-> EnvUnset]}

\* The page as parsed, before the script's listeners have run: the filter
\* checkboxes carry the checked attribute, the body has no class.
PageParsed ==
  /\ \E f \in PageFiles, env \in PageEnvirons :
       /\ file = f
       /\ environ = env
       /\ html_doc = render_jsonl_to_html(f, env).html_doc
  /\ lineno = 0 /\ blocks = <<>> /\ session_header_done = FALSE /\ wrapped_mode = "None"
  /\ dom = [i \in 1..Len(html_doc) |-> BlockElement(html_doc[i].frag)]
  /\ body_classes = {}
  /\ checked = [k \in FilterKinds |-> TRUE]
  /\ code = <<>>
  /\ IdleCall
  /\ IdleBatch

InitPage ==
  /\ pc = "loading"
  /\ PageParsed
  /\ pending = <<>>

\* A checkbox is clicked while the document is still being parsed: no listener
\* is attached yet.
EarlyCheckbox ==
  /\ pc = "loading"
  /\ \E k \in FilterKinds : checked' = [checked EXCEPT ![k] = ~@]
  /\ UNCHANGED << pc, renderVars, environ, callVars, batchVars, dom, body_classes,
                  pending, code >>

\* DOMContentLoaded: applyFilterState.
LoadFilters ==
  /\ pc = "loading"
  /\ body_classes' = applyFilterState(body_classes, checked)
  /\ pc' = "interactive"
  /\ UNCHANGED << renderVars, environ, callVars, batchVars, dom, checked, pending, code >>

\* A filter checkbox changes: the change listener runs applyFilterState.
ChangeCheckbox ==
  /\ pc = "interactive"
  /\ \E k \in FilterKinds : checked' = [checked EXCEPT ![k] = ~@]
  /\ body_classes' = applyFilterState(body_classes, checked')
  /\ UNCHANGED << pc, renderVars, environ, callVars, batchVars, dom, pending, code >>

\* A click on the toggle button of block i: its closest .collapsible is the
\* block itself.
ClickToggleOf(i) ==
  /\ pc = "interactive"
  /\ dom[i].toggle # NoElement
  /\ dom' = [dom EXCEPT ![i] = IF "collapsible" \in @.classes
                                THEN setCollapsed(@, "collapsed" \notin @.classes)
                                ELSE @]
  /\ UNCHANGED << pc, renderVars, environ, callVars, batchVars, body_classes, checked,
                  pending, code >>

ClickToggle == \E i \in 1..Len(dom) : ClickToggleOf(i)

\* document.querySelectorAll('.collapsible').forEach(setCollapsed(el, collapsed))
SetAllCollapsed(collapsed) ==
  [i \in 1..Len(dom) |->
     IF "collapsible" \in dom[i].classes THEN setCollapsed(dom[i], collapsed) ELSE dom[i]]

\* A click on Collapse All.
ClickCollapseAll ==
  /\ pc = "interactive"
  /\ dom' = SetAllCollapsed(TRUE)
  /\ UNCHANGED << pc, renderVars, environ, callVars, batchVars, body_classes, checked,
                  pending, code >>

\* A click on Expand All.
ClickExpandAll ==
  /\ pc = "interactive"
  /\ dom' = SetAllCollapsed(FALSE)
  /\ UNCHANGED << pc, renderVars, environ, callVars, batchVars, body_classes, checked,
                  pending, code >>

NextPage ==
  \/ EarlyCheckbox \/ LoadFilters \/ ChangeCheckbox \/ ClickToggle
  \/ ClickCollapseAll \/ ClickExpandAll

SpecPage == InitPage /\ [][NextPage]_vars

\* -------------------------------------------------- claims about the page

Collapsibles == {i \in 1..Len(dom) : "collapsible" \in dom[i].classes}
HasClassCollapsed(i) == "collapsed" \in dom[i].classes

\* The three pieces of collapse state of block i say the same.
CollapseStateAgrees(i) ==
  /\ HasClassCollapsed(i) <=> dom[i].toggle.aria_expanded = "false"
  /\ HasClassCollapsed(i) <=> dom[i].toggle.textContent = "Expand"
  /\ dom[i].toggle.aria_expanded \in {"true", "false"}
  /\ dom[i].toggle.textContent \in {"Expand", "Collapse"}

\* C11: in every collapsible block, as rendered and after any clicks on
\* toggles, Collapse All and Expand All, the collapsed class, aria-expanded =
\* 'false' and the label 'Expand' go together; a click on a toggle flips the
\* three of its block and leaves the other blocks as they were.
C11_CollapseStateAgrees ==
  /\ [](\A i \in Collapsibles : CollapseStateAgrees(i))
  /\ [][\A i \in 1..Len(dom) :
          ClickToggleOf(i) =>
            /\ ("collapsed" \in dom'[i].classes) # HasClassCollapsed(i)
            /\ dom'[i].toggle.aria_expanded # dom[i].toggle.aria_expanded
            /\ dom'[i].toggle.textContent # dom[i].toggle.textContent
            /\ \A j \in 1..Len(dom) : j # i => dom'[j] = dom[j]]_vars

\* A block rendered expanded has been collapsed while a block rendered
\* collapsed has been expanded.
C11_Witness ==
  /\ pc = "interactive"
  /\ \E i, j \in Collapsibles :
       /\ html_doc[i].frag.collapsed /\ ~HasClassCollapsed(i)
       /\ dom[i].toggle.textContent = "Collapse"
       /\ ~html_doc[j].frag.collapsed /\ HasClassCollapsed(j)
       /\ dom[j].toggle.aria_expanded = "false"

\* The style rule ".hide-cls .block.cls { display: none; }" applies to block i.
Hidden(i) ==
  \E cls \in FilterKinds : HideClass(cls) \in body_classes /\ {"block", cls} \subseteq dom[i].classes
BlocksOfKind(cls) == {i \in 1..Len(dom) : {"block", cls} \subseteq dom[i].classes}

\* C12: once the page is loaded, the blocks of a kind are hidden iff the
\* kind's checkbox is unchecked; a step that leaves a kind's checkbox as it
\* was (another checkbox changing, a collapse or expand click) leaves the
\* visibility of that kind's blocks as it was.
C12_FiltersIndependent ==
  /\ [](pc = "interactive" =>
          \A cls \in FilterKinds : \A i \in BlocksOfKind(cls) : Hidden(i) <=> ~checked[cls])
  /\ [][pc = "interactive" =>
          \A cls \in FilterKinds :
            checked'[cls] = checked[cls] =>
              /\ (HideClass(cls) \in body_classes') <=> (HideClass(cls) \in body_classes)
              /\ \A i \in BlocksOfKind(cls) : Hidden(i)' <=> Hidden(i)]_vars

\* Two kinds are hidden while a third, with a collapsed block, is shown.
C12_Witness ==
  /\ pc = "interactive"
  /\ ~checked["func-call"] /\ ~checked["reasoning"] /\ checked["func-output"]
  /\ \E i \in BlocksOfKind("func-call") : Hidden(i)
  /\ \E i \in BlocksOfKind("reasoning") : Hidden(i)
  /\ \E i \in BlocksOfKind("func-output") : ~Hidden(i) /\ HasClassCollapsed(i)

\* ---------------------------------------------- the page: the copy button

\* The most clipboard promises and timeouts outstanding at once.
MaxPending == 3

\* The loaded page, with or without navigator.clipboard.writeText.
InitCopy ==
  /\ pc = "interactive"
  /\ PageParsed
  /\ \E b \in BOOLEAN : pending = [clipboard |-> b, promises |-> <<>>, timers |-> <<>>]

\* var old = copyBtn.textContent; copyBtn.textContent = 'Copied!';
\* setTimeout(function(){ copyBtn.textContent = old; }, 1200);
ShowCopied(i, promises) ==
  /\ dom' = [dom EXCEPT ![i].copy.textContent = "Copied!"]
  /\ pending' = [pending EXCEPT
                   !.promises = promises,
                   !.timers = Append(@, [btn |-> i, old |-> dom[i].copy.textContent])]

\* A click on the copy button of block i: atob of the stored base64 text, then
\* writeText (the feedback follows when its promise settles) or, without the
\* clipboard API, the textarea fallback and the feedback at once.
ClickCopy ==
  /\ pc = "interactive"
  /\ Len(pending.promises) + Len(pending.timers) < MaxPending
  /\ \E i \in 1..Len(dom) :
       /\ dom[i].copy # NoElement
       /\ "apply-patch" \in dom[i].classes
       /\ IF pending.clipboard
          THEN /\ pending' = [pending EXCEPT !.promises = Append(@, i)]
               /\ UNCHANGED dom
          ELSE ShowCopied(i, pending.promises)
  /\ UNCHANGED << pc, renderVars, environ, callVars, batchVars, body_classes, checked, code >>

\* A writeText promise settles: fulfilled, the then-callback gives the
\* feedback; rejected, the catch-callback runs the fallback and gives it.
PromiseSettles ==
  /\ pc = "interactive"
  /\ \E k \in 1..Len(pending.promises), outcome \in {"fulfilled", "rejected"} :
       ShowCopied(pending.promises[k],
                  SubSeq(pending.promises, 1, k - 1)
                    \o SubSeq(pending.promises, k + 1, Len(pending.promises)))
  /\ UNCHANGED << pc, renderVars, environ, callVars, batchVars, body_classes, checked, code >>

\* The oldest timeout runs (all have the same delay): copyBtn.textContent = old.
TimerFires ==
  /\ pc = "interactive"
  /\ pending.timers # <<>>
  /\ dom' = [dom EXCEPT ![Head(pending.timers).btn].copy.textContent = Head(pending.timers).old]
  /\ pending' = [pending EXCEPT !.timers = Tail(@)]
  /\ UNCHANGED << pc, renderVars, environ, callVars, batchVars, body_classes, checked, code >>

NextCopy == ClickCopy \/ PromiseSettles \/ TimerFires

SpecCopy == InitCopy /\ [][NextCopy]_vars

\* C13: whenever no writeText promise and no timeout is outstanding, every
\* copy button reads 'Copy' again, whatever clicks came before and on either
\* path.
C13_CopyLabelReverts ==
  (pending.promises = <<>> /\ pending.timers = <<>>) =>
    \A i \in 1..Len(dom) : dom[i].copy # NoElement => dom[i].copy.textContent = "Copy"

\* ---------------------------------------------- the page: the highlighter

\* The longest text of a code element, in characters (the patch marker apart).
MaxCode == 3

CodeAlphabet == {"+", "-", "@", "x", "\n", "<", "&", "'", "\\"}
CodeTexts == UNION { [1..n -> CodeAlphabet] : n \in 0..MaxCode }

\* The tags highlightText writes; every other token of a markup is a character
\* or a character reference.
SpanOpen(cls) ==
  CASE cls = "tok-line tok-add" -> "<span class='tok-line tok-add'>"
    [] cls = "tok-line tok-del" -> "<span class='tok-line tok-del'>"
    [] cls = "tok-line tok-meta" -> "<span class='tok-line tok-meta'>"
    [] cls = "tok-line tok-none" -> "<span class='tok-line tok-none'>"
    [] cls = "tok-str" -> "<span class='tok-str'>"
SpanClose == "</span>"
IsTag(tok) ==
  tok \in {SpanClose} \cup {SpanOpen(cls) : cls \in {"tok-line tok-add", "tok-line tok-del",
                                                     "tok-line tok-meta", "tok-line tok-none",
                                                     "tok-str"}}

\* escapeHtml, and the text a character reference stands for.
EscapeHtmlChar(c) ==
  CASE c = "&" -> "&amp;" [] c = "<" -> "&lt;" [] c = ">" -> "&gt;" [] OTHER -> c
UnescapeHtmlChar(c) ==
  CASE c = "&amp;" -> "&" [] c = "&lt;" -> "<" [] c = "&gt;" -> ">" [] OTHER -> c
escapeHtml(s) == [i \in 1..Len(s) |-> EscapeHtmlChar(s[i])]

\* element.textContent of a parsed markup: the text between the tags.
textContent(markup) ==
  LET chars == SelectSeq(markup, LAMBDA tok : ~IsTag(tok))
  IN [i \in 1..Len(chars) |-> UnescapeHtmlChar(chars[i])]

RECURSIVE SplitLines(_)
\* esc.split('\n')
SplitLines(s) ==
  IF \E i \in 1..Len(s) : s[i] = "\n"
  THEN LET i == CHOOSE k \in 1..Len(s) : s[k] = "\n" /\ \A m \in 1..(k - 1) : s[m] # "\n"
       IN <<SubSeq(s, 1, i - 1)>> \o SplitLines(SubSeq(s, i + 1, Len(s)))
  ELSE <<s>>

\* The class of a diff line, by the character it starts with.
DiffLineClass(l) ==
  IF l = <<>> THEN "tok-line tok-none"
  ELSE CASE l[1] = "+" -> "tok-line tok-add"
         [] l[1] = "-" -> "tok-line tok-del"
         [] l[1] = "@" -> "tok-line tok-meta"
         [] OTHER -> "tok-line tok-none"

RECURSIVE JoinSpans(_)
\* lines.map(span).join('')
JoinSpans(lines) ==
  IF lines = <<>> THEN <<>>
  ELSE <<SpanOpen(DiffLineClass(lines[1]))>> \o lines[1] \o <<SpanClose>>
         \o JoinSpans(Tail(lines))

RECURSIVE StringEnd(_, _, _)
\* Where the string literal opened by quote q ends when position k is the next
\* to read: (?:\\.|[^q\\])* and the closing q. 0 when there is no match.
StringEnd(s, k, q) ==
  IF k > Len(s) THEN 0
  ELSE IF s[k] = q THEN k
  ELSE IF s[k] = "\\"
       THEN IF k + 1 <= Len(s) /\ s[k + 1] # "\n" THEN StringEnd(s, k + 2, q) ELSE 0
  ELSE StringEnd(s, k + 1, q)

RECURSIVE WrapStrings(_, _)
\* s.replace(/'...'|"..."/g, tok-str span), from position k on.
WrapStrings(s, k) ==
  IF k > Len(s) THEN <<>>
  ELSE IF s[k] \in {"'", "\""} /\ StringEnd(s, k + 1, s[k]) # 0
       THEN LET e == StringEnd(s, k + 1, s[k])
            IN <<SpanOpen("tok-str")>> \o SubSeq(s, k, e) \o <<SpanClose>>
                 \o WrapStrings(s, e + 1)
  ELSE <<s[k]>> \o WrapStrings(s, k + 1)

\* highlightText for the language 'diff' and for a text without a language
\* (the steps for python, shell and json apply to neither).
highlightText(text, lang) ==
  IF lang = "diff" THEN JoinSpans(SplitLines(escapeHtml(text)))
  ELSE WrapStrings(escapeHtml(text), 1)

\* cls.match(/language-([a-z0-9]+)/i), lower-cased.
LanguageOf(className) ==
  CASE className = "language-diff" -> "diff"
    [] className = "language-DIFF" -> "diff"
    [] OTHER -> ""

\* The code elements highlightAll selects: the code of an Apply Patch block,
\* whose text opens with the patch marker, and a fenced block of rendered
\* markdown without a language.
InitHighlight ==
  /\ pc = "loading"
  /\ \E t \in CodeTexts, cls \in {"language-diff", ""} :
       LET txt == IF cls = "" THEN t ELSE <<"*** Begin Patch">> \o t
       IN code = [className |-> cls, original |-> txt, innerHTML |-> escapeHtml(txt),
                  first |-> <<>>, runs |-> 0]
  /\ dom = <<>> /\ body_classes = {} /\ checked = <<>> /\ pending = <<>>
  /\ environ = DefaultEnviron
  /\ IdleRender
  /\ IdleCall
  /\ IdleBatch

\* highlightAll: at DOMContentLoaded, and once more when run again.
HighlightAll ==
  /\ code.runs < 2
  /\ LET html == highlightText(textContent(code.innerHTML), LanguageOf(code.className))
     IN code' = [code EXCEPT !.innerHTML = html,
                             !.first = IF code.runs = 0 THEN html ELSE @,
                             !.runs = @ + 1]
  /\ pc' = "interactive"
  /\ UNCHANGED << renderVars, environ, callVars, batchVars, dom, body_classes, checked,
                  pending >>

NextHighlight == HighlightAll

SpecHighlight == InitHighlight /\ [][NextHighlight]_vars

\* C16: after highlightAll the code element's text content is what it was
\* before the first run, and a second run leaves the markup of the first.
C16_HighlightIdempotent ==
  /\ code.runs >= 1 => textContent(code.innerHTML) = code.original
  /\ code.runs = 2 => code.innerHTML = code.first

\* ------------------------------------ main --all, the renders step by step

\* Files of both formats: with a header line, without one, with a line shaped
\* like the other format, and one whose render raises.
WrappedPlainFile == <<WrappedUserLine, WrappedStateLine>>
DirectLateHeaderFile == <<AssistantLine, InstructionsOnlyLine>>
MixedFile == <<UnknownTypeLine, BlankTextLine, WrappedUserLine>>
SequenceContents ==
  {SessionFile, DirectFile, RaisingFile, WrappedPlainFile, DirectLateHeaderFile, MixedFile}
SequenceSources ==
  UNION { [1..n -> [lines : SequenceContents, stamp : {[date |-> 1, time |-> 1]}]] :
            n \in 0..MaxFiles }

InitSequence ==
  /\ pc = "batch"
  /\ sources \in SequenceSources
  /\ cursor = 0
  /\ index_items = <<>>
  /\ outputs = {}
  /\ stderr = <<>>
  /\ index_html = [written |-> FALSE, groups |-> <<>>]
  /\ failure = "none"
  /\ environ = DefaultEnviron
  /\ IdleRender
  /\ IdleCall
  /\ IdlePage

\* A faulty variant of the entry of render_jsonl_to_html: the mode and the
\* header flag are those the previous call left.
EnterLocalsKeepsFlags(previous) ==
  [InitialLocals EXCEPT !.session_header_done = previous.session_header_done,
                        !.wrapped_mode = previous.wrapped_mode]

\* The locals at the entry of render_jsonl_to_html, whatever the previous
\* call left: blocks = [], session_header_done = False, wrapped_mode = None.
EnterLocals(previous) == InitialLocals

\* main calls render_jsonl_to_html(str(src)) for the next file, which opens.
EnterRender ==
  /\ pc = "batch" /\ cursor < Len(sources)
  /\ file' = sources[cursor + 1].lines
  /\ lineno' = 0
  /\ blocks' = EnterLocals(Locals).blocks
  /\ session_header_done' = EnterLocals(Locals).session_header_done
  /\ wrapped_mode' = EnterLocals(Locals).wrapped_mode
  /\ pc' = "loop"
  /\ UNCHANGED << html_doc, environ, pageVars, callVars, batchVars >>

\* The render returned its document: it is written and the file joins the
\* index.
RenderReturned ==
  /\ pc = "done"
  /\ outputs' = outputs \cup {[rel_html |-> cursor + 1, html_doc |-> html_doc]}
  /\ index_items' = Append(index_items,
                           [date |-> sources[cursor + 1].stamp.date,
                            time |-> sources[cursor + 1].stamp.time,
                            rel_html |-> cursor + 1])
  /\ cursor' = cursor + 1
  /\ pc' = "batch"
  /\ UNCHANGED << renderVars, environ, pageVars, callVars, sources, stderr, index_html,
                  failure >>

\* The render raised: the except branch of main.
RenderRaised ==
  /\ pc = "raised"
  /\ stderr' = Append(stderr, [src |-> cursor + 1, e |-> "render"])
  /\ cursor' = cursor + 1
  /\ pc' = "batch"
  /\ UNCHANGED << renderVars, environ, pageVars, callVars, sources, index_items, outputs,
                  index_html, failure >>

NextSequence ==
  \/ EnterRender \/ BlankLine \/ UnparsedLine \/ ParsedLine \/ Return
  \/ RenderReturned \/ RenderRaised

SpecSequence == InitSequence /\ [][NextSequence]_vars

\* C17: every render starts with the mode undetermined, the header not
\* emitted and no block, so the document written for a file, and whether its
\* render raises, are those of rendering the file alone, whatever files came
\* before it.
C17_RenderIsFileLocal ==
  /\ (pc = "loop" /\ lineno = 0) =>
       (wrapped_mode = "None" /\ ~session_header_done /\ blocks = <<>>)
  /\ \A o \in outputs :
       /\ ~render_jsonl_to_html(sources[o.rel_html].lines, environ).raised
       /\ o.html_doc = render_jsonl_to_html(sources[o.rel_html].lines, environ).html_doc
  /\ \A i \in Warned : render_jsonl_to_html(sources[i].lines, environ).raised
  /\ pc = "batch" => Converted \cup Warned = 1..cursor
  /\ \A o1, o2 \in outputs :
       sources[o1.rel_html].lines = sources[o2.rel_html].lines => o1.html_doc = o2.html_doc

\* After a wrapped file with a session header, a direct file was rendered in
\* direct mode and got a session header of its own.
C17_Witness ==
  /\ pc = "batch" /\ cursor = 2
  /\ sources[1].lines = SessionFile /\ sources[2].lines = DirectLateHeaderFile
  /\ wrapped_mode = "False" /\ session_header_done
  /\ \E o \in outputs :
       /\ o.rel_html = 2
       /\ o.html_doc # <<>>
       /\ o.html_doc[1].frag.kind = "assistant"
  /\ \E o \in outputs :
       /\ o.rel_html = 1
       /\ \E k \in 1..Len(o.html_doc) : o.html_doc[k].frag.kind = "session"

====
